---- MODULE Spec2Model ----
(***************************************************************************)
(* Model of tee_time_reservations.py: the slot selector (to_minutes,       *)
(* get_availability, pick_slot), the acquisition loop (poll_for_slot) and  *)
(* the run of main that commits the reservation.                           *)
(*                                                                         *)
(* A time string "HH:MM" is a sequence of one-character strings, so that   *)
(* to_minutes splits and parses it as the code does.  Time is counted in   *)
(* whole seconds, except in sleep_until taken on its own, where it is      *)
(* counted in tenths of a second.                                          *)
(***************************************************************************)
EXTENDS Integers, Sequences, FiniteSets, TLC

VARIABLES
    \* ---- the run of main / poll_for_slot ----
    pc,          \* position of the run
    args,        \* parsed command line (argparse.Namespace)
    clock,       \* time.time(), in seconds since midnight of the first day
    deadline,    \* poll_for_slot: deadline
    backoff,     \* poll_for_slot: backoff
    last_avails, \* poll_for_slot: last_avails
    ret,         \* value returned by poll_for_slot: [pick, avails]
    exit_code,   \* exit status of the process, -1 while running
    exc,         \* the exception that ended the run uncaught, "none" if none
    \* ---- history of the run (observations, not program state) ----
    outcome,     \* how the most recent availability query ended
    fails,       \* consecutive transient failures since the last success
    succeeded,   \* some query of this call has succeeded
    slept,       \* the backoff durations slept so far, in order
    nqueries,    \* availability queries issued so far
    lastGood,    \* SlotSet of the most recent successful query
    lastPick,    \* selection made from the most recent successful query
    reserves,    \* outcomes of the reservation commits attempted so far
    \* ---- a single evaluation of get_availability / pick_slot ----
    step,        \* "input", "avails" or "picked"
    data,        \* the response body of the query (r.json())
    players,     \* party size
    mode,        \* selection mode
    target_time, \* target time or None
    avails,      \* result of get_availability
    pick,        \* result of pick_slot
    \* ---- the Scheduled Start Gate on its own ----
    g_pc,        \* position in the gate
    g_hhmm,      \* args.wait_until
    g_now,       \* the wall clock (datetime.now)
    g_target,    \* target / target_dt
    g_entry,     \* the wall clock when sleep_until was entered
    g_sleeps     \* the calls of time.sleep so far: [delta, secs], in order

vars == <<pc, args, clock, deadline, backoff, last_avails, ret, exit_code,
          exc, outcome, fails, succeeded, slept, nqueries, lastGood, lastPick, reserves,
          step, data, players, mode, target_time, avails, pick,
          g_pc, g_hhmm, g_now, g_target, g_entry, g_sleeps>>

runVars == <<pc, args, clock, deadline, backoff, last_avails, ret, exit_code,
             exc, outcome, fails, succeeded, slept, nqueries, lastGood, lastPick, reserves>>

evalVars == <<step, data, players, mode, target_time, avails, pick>>

gateVars == <<g_pc, g_hhmm, g_now, g_target, g_entry, g_sleeps>>

(***************************************************************************)
(* Values                                                                  *)
(***************************************************************************)
\* Python's None as a record (a slot is a record too)
None == [none |-> TRUE]

Min(a, b) == IF a <= b THEN a ELSE b

Range(s) == {s[i] : i \in 1..Len(s)}

Digits == {"0", "1", "2", "3", "4", "5", "6", "7", "8", "9"}

DigitVal(c) ==
    CASE c = "0" -> 0 [] c = "1" -> 1 [] c = "2" -> 2 [] c = "3" -> 3
      [] c = "4" -> 4 [] c = "5" -> 5 [] c = "6" -> 6 [] c = "7" -> 7
      [] c = "8" -> 8 [] c = "9" -> 9

\* str.split(":"): the parts of s between the colons
RECURSIVE Split(_)
Split(s) ==
    IF \A i \in 1..Len(s) : s[i] # ":"
    THEN <<s>>
    ELSE LET k == CHOOSE i \in 1..Len(s) :
                      s[i] = ":" /\ \A j \in 1..(i - 1) : s[j] # ":"
         IN  <<SubSeq(s, 1, k - 1)>> \o Split(SubSeq(s, k + 1, Len(s)))

\* int(part) accepts a non-empty run of decimal digits (sign, blanks and
\* underscores, which int also accepts, are not among the modelled inputs)
IntParses(part) == Len(part) > 0 /\ \A i \in 1..Len(part) : part[i] \in Digits

RECURSIVE IntOf(_)
IntOf(part) ==
    IF Len(part) = 0 THEN 0
    ELSE 10 * IntOf(SubSeq(part, 1, Len(part) - 1)) + DigitVal(part[Len(part)])

\* h, m = map(int, hhmm.split(":")) raises ValueError when there are not
\* exactly two parts or when a part is no integer
to_minutes_raises(hhmm) ==
    LET parts == Split(hhmm)
    IN  Len(parts) # 2 \/ \E i \in 1..Len(parts) : ~IntParses(parts[i])

\* return 60 * h + m (no range check on h and m)
to_minutes(hhmm) ==
    LET parts == Split(hhmm)
    IN  60 * IntOf(parts[1]) + IntOf(parts[2])

\* x.get("NumeroJugadoresMaximo", 4)
DefaultMaxPlayers == 4

MaxPlayersOf(x) ==
    IF "NumeroJugadoresMaximo" \in DOMAIN x
    THEN x.NumeroJugadoresMaximo ELSE DefaultMaxPlayers

\* the capacity filter with a strict comparison
FilterCapacity_strict(d, p) == SelectSeq(d, LAMBDA x : MaxPlayersOf(x) > p)

\* avails = [x for x in data if x.get("NumeroJugadoresMaximo", 4) >= int(players)]
FilterCapacity(d, p) == SelectSeq(d, LAMBDA x : MaxPlayersOf(x) >= p)

\* list.sort(key=...) is stable: an element goes after the elements already
\* placed whose key is less than or equal to its own
\* an insertion that puts an element before the elements of equal key
RECURSIVE InsertByHora_unstable(_, _)
InsertByHora_unstable(s, x) ==
    IF s = <<>> THEN <<x>>
    ELSE IF to_minutes(s[Len(s)].Hora) < to_minutes(x.Hora)
         THEN Append(s, x)
         ELSE Append(InsertByHora_unstable(SubSeq(s, 1, Len(s) - 1), x), s[Len(s)])

RECURSIVE InsertByHora(_, _)
InsertByHora(s, x) ==
    IF s = <<>> THEN <<x>>
    ELSE IF to_minutes(s[Len(s)].Hora) <= to_minutes(x.Hora)
         THEN Append(s, x)
         ELSE Append(InsertByHora(SubSeq(s, 1, Len(s) - 1), x), s[Len(s)])

RECURSIVE SortByHora(_)
SortByHora(s) ==
    IF s = <<>> THEN <<>>
    ELSE InsertByHora(SortByHora(SubSeq(s, 1, Len(s) - 1)), s[Len(s)])

\* get_availability, from the response body on: the sort computes the key of
\* every record that passed the filter, and a malformed Hora raises ValueError
get_availability_raises(d, p) ==
    \E x \in Range(FilterCapacity(d, p)) : to_minutes_raises(x.Hora)

get_availability(d, p) == SortByHora(FilterCapacity(d, p))

\* the value None of an optional string
NoneStr == <<"None">>

\* Python truthiness of an optional string: None and "" are false
Truthy(s) == s # NoneStr /\ s # <<>>

pick_slot_raises(a, m, t) ==
    /\ a # <<>>
    /\ ~(m = "earliest" \/ ~Truthy(t))
    /\ IF m = "closest"
       THEN to_minutes_raises(t) \/ \E x \in Range(a) : to_minutes_raises(x.Hora)
       ELSE TRUE      \* raise ValueError(f"Unknown mode: {mode}")

\* pick_slot with the comparison of 'closest' made strict
pick_slot_strict(a, m, t) ==
    IF a = <<>> THEN None
    ELSE IF m = "earliest" \/ ~Truthy(t) THEN a[1]
    ELSE LET t0 == to_minutes(t)
             candidates == SelectSeq(a, LAMBDA x : to_minutes(x.Hora) > t0)
         IN  IF candidates = <<>> THEN None ELSE candidates[1]

\* pick_slot taking the last element where the code takes the first
pick_slot_last(a, m, t) ==
    IF a = <<>> THEN None
    ELSE IF m = "earliest" \/ ~Truthy(t) THEN a[Len(a)]
    ELSE LET t0 == to_minutes(t)
             candidates == SelectSeq(a, LAMBDA x : to_minutes(x.Hora) >= t0)
         IN  IF candidates = <<>> THEN None ELSE candidates[1]

\* pick_slot testing the mode before the presence of a target time
pick_slot_mode_first(a, m, t) ==
    IF a = <<>> THEN None
    ELSE IF m = "earliest" THEN a[1]
    ELSE IF ~Truthy(t) THEN None
    ELSE LET t0 == to_minutes(t)
             candidates == SelectSeq(a, LAMBDA x : to_minutes(x.Hora) >= t0)
         IN  IF candidates = <<>> THEN None ELSE candidates[1]

pick_slot(a, m, t) ==
    IF a = <<>> THEN None
    ELSE IF m = "earliest" \/ ~Truthy(t) THEN a[1]
    ELSE LET t0 == to_minutes(t)
             candidates == SelectSeq(a, LAMBDA x : to_minutes(x.Hora) >= t0)
         IN  IF candidates = <<>> THEN None ELSE candidates[1]

(***************************************************************************)
(* Inputs of the model                                                     *)
(***************************************************************************)
T0000 == <<"0", "0", ":", "0", "0">>
T0800 == <<"0", "8", ":", "0", "0">>
T0900 == <<"0", "9", ":", "0", "0">>
T0930 == <<"0", "9", ":", "3", "0">>
T0945 == <<"0", "9", ":", "4", "5">>
T1000 == <<"1", "0", ":", "0", "0">>
T1030 == <<"1", "0", ":", "3", "0">>
TNoColon == <<"0", "9", "3", "0">>
T2359 == <<"2", "3", ":", "5", "9">>
T2599 == <<"2", "5", ":", "9", "9">>

Slot(h, r, n) ==
    [Fecha |-> "2025-06-01", Hora |-> h, Recorrido |-> r, NumeroJugadoresMaximo |-> n]

\* longest response body of a single evaluation
MaxLen == 2

Capacities == {2, 4}

Records == {Slot(h, r, n) : h \in {T0800, T0930, T1000, TNoColon},
                            r \in {"18 HOYOS", "9 HOYOS"}, n \in Capacities}

SeqsUpTo(S, n) == UNION {[1..k -> S] : k \in 0..n}

Modes == {"earliest", "closest", "fastest"}

Targets == {NoneStr, <<>>, T0945, T1000, T1030, T2599}

Parties == {2, 3}

(***************************************************************************)
(* One evaluation of get_availability followed by pick_slot                *)
(***************************************************************************)
RunIdle ==
    /\ pc = "idle" /\ clock = 0 /\ deadline = 0 /\ backoff = 0
    /\ args = [none |-> TRUE]
    /\ last_avails = <<>> /\ ret = [pick |-> None, avails |-> <<>>]
    /\ exit_code = -1 /\ exc = "none" /\ outcome = "none"
    /\ fails = 0 /\ succeeded = FALSE /\ slept = <<>> /\ nqueries = 0
    /\ lastGood = <<>> /\ lastPick = None /\ reserves = <<>>

GateIdle ==
    /\ g_pc = "idle" /\ g_hhmm = NoneStr /\ g_now = 0 /\ g_target = 0
    /\ g_entry = 0 /\ g_sleeps = <<>>

InitEval ==
    /\ RunIdle
    /\ GateIdle
    /\ step = "input"
    /\ data \in SeqsUpTo(Records, MaxLen)
    /\ players \in Parties
    /\ mode \in Modes
    /\ target_time \in Targets
    /\ avails = <<>>
    /\ pick = None

EvalAvailability ==
    /\ step = "input"
    /\ IF get_availability_raises(data, players)
       THEN step' = "raised" /\ avails' = avails
       ELSE step' = "avails" /\ avails' = get_availability(data, players)
    /\ UNCHANGED <<data, players, mode, target_time, pick>>
    /\ UNCHANGED runVars
    /\ UNCHANGED gateVars

EvalPick ==
    /\ step = "avails"
    /\ IF pick_slot_raises(avails, mode, target_time)
       THEN step' = "raised" /\ pick' = pick
       ELSE step' = "picked" /\ pick' = pick_slot(avails, mode, target_time)
    /\ UNCHANGED <<data, players, mode, target_time, avails>>
    /\ UNCHANGED runVars
    /\ UNCHANGED gateVars

NextEval == EvalAvailability \/ EvalPick

SpecEval == InitEval /\ [][NextEval]_vars

\* the slots of s at or after the time t
AtOrAfter(s, t) == {x \in Range(s) : to_minutes(x.Hora) >= to_minutes(t)}

\* x is a slot of the set Q with minimal time of day
IsMinOf(x, Q) == x \in Q /\ \A y \in Q : to_minutes(x.Hora) <= to_minutes(y.Hora)

C10_Earliest ==
    (step = "picked" /\ mode = "earliest") =>
        /\ (pick = None) <=> (avails = <<>>)
        /\ (pick # None) => IsMinOf(pick, Range(avails))

\* Scenario A: the response lists 10:00 before 09:30 and 09:30 is selected
C10_Witness ==
    /\ step = "picked" /\ mode = "earliest" /\ players = 2
    /\ data = <<Slot(T1000, "18 HOYOS", 4), Slot(T0930, "18 HOYOS", 2)>>
    /\ pick = Slot(T0930, "18 HOYOS", 2)

\* number of occurrences of r in the sequence s
Count(s, r) == Cardinality({i \in 1..Len(s) : s[i] = r})

\* C11: the SlotSet get_availability returns holds exactly the records of the
\* response whose maxPlayers is at least the party size (each as often as the
\* response has it), and it is sorted non-decreasing by time of day.
C11_FilteredAndSorted ==
    step \in {"avails", "picked"} =>
        /\ \A i \in 1..Len(avails) : avails[i].NumeroJugadoresMaximo >= players
        /\ \A i, j \in 1..Len(avails) :
               i < j => to_minutes(avails[i].Hora) <= to_minutes(avails[j].Hora)
        /\ \A r \in Range(data) \cup Range(avails) :
               Count(avails, r) =
                   IF r.NumeroJugadoresMaximo >= players THEN Count(data, r) ELSE 0

\* a party of 3: the record of capacity 2 is dropped, the other is kept
C11_Witness ==
    /\ step = "avails" /\ players = 3
    /\ data = <<Slot(T1000, "18 HOYOS", 4), Slot(T0930, "18 HOYOS", 2)>>
    /\ avails = <<Slot(T1000, "18 HOYOS", 4)>>

\* the elements of s whose time of day is that of hhmm, in the order of s
AtTime(s, hhmm) == SelectSeq(s, LAMBDA x : to_minutes(x.Hora) = to_minutes(hhmm))

\* C15: slots of equal time of day stay in the order of the response, and the
\* slot selected among them is the one the response lists first.
C15_StableTieBreak ==
    /\ step \in {"avails", "picked"} =>
           \A x \in Range(avails) :
               AtTime(avails, x.Hora) = AtTime(FilterCapacity(data, players), x.Hora)
    /\ (step = "picked" /\ mode \in {"earliest", "closest"} /\ pick # None) =>
           pick = AtTime(FilterCapacity(data, players), pick.Hora)[1]

C15_Witness ==
    /\ step = "picked" /\ mode = "closest" /\ target_time = T0945 /\ players = 2
    /\ data = <<Slot(T1000, "9 HOYOS", 2), Slot(T1000, "18 HOYOS", 4)>>
    /\ pick = Slot(T1000, "9 HOYOS", 2)

\* a well-formed 24-hour "HH:MM"
WellFormed(hhmm) ==
    /\ Len(hhmm) = 5 /\ hhmm[3] = ":"
    /\ \A i \in {1, 2, 4, 5} : hhmm[i] \in Digits
    /\ IntOf(SubSeq(hhmm, 1, 2)) <= 23
    /\ IntOf(SubSeq(hhmm, 4, 5)) <= 59

\* C17: a time that is no well-formed "HH:MM" is a hard error: a response
\* with such a record never yields a SlotSet, and 'closest' with such a
\* target never yields a result.
C17_MalformedIsHardError ==
    /\ step \in {"avails", "picked"} => \A x \in Range(data) : WellFormed(x.Hora)
    /\ (step = "picked" /\ mode = "closest" /\ Truthy(target_time) /\ avails # <<>>)
           => WellFormed(target_time)

\* C20: mode 'closest' without a target time (None or "") selects as
\* 'earliest' does: the first slot of a non-empty SlotSet, a slot of minimal
\* time of day, whatever that time is, and None for the empty SlotSet.
C20_ClosestWithoutTarget ==
    (step = "picked" /\ mode = "closest" /\ ~Truthy(target_time)) =>
        /\ (avails = <<>>) => pick = None
        /\ (avails # <<>>) => (pick = avails[1] /\ IsMinOf(pick, Range(avails)))

C20_Witness ==
    /\ step = "picked" /\ mode = "closest" /\ target_time = <<>>
    /\ Len(avails) = 2 /\ avails[1].Hora = T0800 /\ avails[2].Hora = T1000
    /\ pick = avails[1]

(***************************************************************************)
(* A run of main                                                           *)
(***************************************************************************)
\* backoff = min(2.0 if backoff == 0.0 else backoff * 2.0, 8.0)
BackoffBase == 2

BackoffCap == 8

\* the backoff doubling without the cap
NextBackoff_uncapped(b) == IF b = 0 THEN BackoffBase ELSE b * 2

NextBackoff(b) == Min(IF b = 0 THEN BackoffBase ELSE b * 2, BackoffCap)

\* timedelta(days=1), in seconds
SecondsPerDay == 86400

\* hh, mm = map(int, ...) fails as to_minutes does, and now.replace raises
\* ValueError for an hour above 23 or a minute above 59
GateTarget_raises(hhmm) ==
    \/ to_minutes_raises(hhmm)
    \/ IntOf(Split(hhmm)[1]) > 23
    \/ IntOf(Split(hhmm)[2]) > 59

\* the gate target with "target < now" for "target <= now"
GateTarget_nonstrict(now, hhmm) ==
    LET target == (now \div SecondsPerDay) * SecondsPerDay + 60 * to_minutes(hhmm)
    IN  IF target < now THEN target + SecondsPerDay ELSE target

\* main, lines 229-233: today's HH:MM in seconds since midnight of the day the
\* run starts, one day later when that instant is not after now
GateTarget(now, hhmm) ==
    LET target == (now \div SecondsPerDay) * SecondsPerDay + 60 * to_minutes(hhmm)
    IN  IF target <= now THEN target + SecondsPerDay ELSE target

\* How a call of get_availability can end.  post raises a RequestException on
\* a network error or timeout, raise_for_status raises HTTPError (a
\* RequestException) on every 4xx and 5xx status, r.json() fails on a body
\* that is no JSON, and the filter or the sort fails on JSON of another shape.
Outcomes == {"ok", "timeout", "http_5xx", "http_401", "not_json", "bad_shape"}

\* except requests.RequestException: what the handler of poll_for_slot catches.
\* The error of r.json() is a RequestException from requests 2.27 on and a
\* plain ValueError before, so both are possible for "not_json".
MayBeCaught(o) == o \in {"timeout", "http_5xx", "http_401", "not_json"}

MayPropagate(o) == o \in {"not_json", "bad_shape"}

\* the exception that propagates out of poll_for_slot
ExcOf(o) == IF o = "not_json" THEN "ValueError" ELSE "AttributeError"

\* seconds a request can take
QueryDurations == {0, 1}

\* the counter of queries stops counting here
MaxQueries == 2

\* response bodies the service gives during a run
RunResponses ==
    { <<>>,
      <<Slot(T0800, "18 HOYOS", 2)>>,
      <<Slot(T1000, "18 HOYOS", 4), Slot(T0930, "18 HOYOS", 2)>>,
      <<Slot(TNoColon, "18 HOYOS", 4)>> }

\* the wall clock at the start of a run, in seconds since midnight
StartClocks == {60 * to_minutes(T0900) - 2, 60 * to_minutes(T0900)}

ArgSets ==
    [token : BOOLEAN, wait_until : {NoneStr, T0900},
     mode : {"earliest", "closest"}, target_time : {NoneStr, T0945},
     players : {2}, poll_every : {0, 3}, max_wait : {-5, 0, 24},
     dry_run : BOOLEAN]

EvalIdle ==
    /\ step = "idle" /\ data = <<>> /\ players = 0 /\ mode = "none"
    /\ target_time = NoneStr /\ avails = <<>> /\ pick = None

Init ==
    /\ pc = "start"
    /\ args \in ArgSets
    /\ clock \in StartClocks
    /\ deadline = 0 /\ backoff = 0 /\ last_avails = <<>>
    /\ ret = [pick |-> None, avails |-> <<>>]
    /\ exit_code = -1 /\ exc = "none" /\ outcome = "none"
    /\ fails = 0 /\ succeeded = FALSE /\ slept = <<>> /\ nqueries = 0
    /\ lastGood = <<>> /\ lastPick = None /\ reserves = <<>>
    /\ EvalIdle
    /\ GateIdle

history == <<outcome, fails, succeeded, slept, nqueries, lastGood, lastPick>>

loopState == <<deadline, backoff, last_avails, ret>>

\* main, lines 219-235: the token check and the Scheduled Start Gate;
\* sleep_until returns when the clock has reached the target
MainStart ==
    /\ pc = "start"
    /\ IF ~args.token
       THEN pc' = "exit" /\ exit_code' = 2 /\ clock' = clock
       ELSE /\ pc' = "poll"
            /\ exit_code' = exit_code
            /\ clock' = IF Truthy(args.wait_until)
                        THEN GateTarget(clock, args.wait_until) ELSE clock
    /\ UNCHANGED <<args, loopState, exc, history, reserves, evalVars, gateVars>>

\* poll_for_slot testing the deadline before its first query
PollEnter_checks_first ==
    /\ pc = "poll"
    /\ deadline' = clock + args.max_wait
    /\ backoff' = 0
    /\ last_avails' = <<>>
    /\ pc' = "check"
    /\ UNCHANGED <<args, clock, ret, exit_code, exc, history, reserves, evalVars, gateVars>>

\* poll_for_slot, lines 154-156
PollEnter ==
    /\ pc = "poll"
    /\ deadline' = clock + args.max_wait
    /\ backoff' = 0
    /\ last_avails' = <<>>
    /\ pc' = "query"
    /\ UNCHANGED <<args, clock, ret, exit_code, exc, history, reserves, evalVars, gateVars>>

\* poll_for_slot that goes on polling after a selection
AfterQuery_keeps_polling(p) == "check"

\* poll_for_slot, lines 165-167: return on a selection, else go on to the
\* deadline check
AfterQuery(p) == IF p # None THEN "returned" ELSE "check"

\* poll_for_slot, lines 160-166: the request succeeds with the body b; a
\* record of b with a malformed Hora makes get_availability raise ValueError
QueryOk ==
    /\ pc = "query"
    /\ \E d \in QueryDurations, b \in RunResponses :
        /\ clock' = clock + d
        /\ nqueries' = Min(nqueries + 1, MaxQueries)
        /\ IF get_availability_raises(b, args.players)
           THEN /\ pc' = "exit" /\ exc' = "ValueError" /\ exit_code' = 1
                /\ outcome' = "bad_record"
                /\ UNCHANGED <<last_avails, ret, fails, succeeded, lastGood, lastPick>>
           ELSE LET a == get_availability(b, args.players)
                IN  /\ outcome' = "ok"
                    /\ last_avails' = a
                    /\ succeeded' = TRUE /\ fails' = 0 /\ lastGood' = a
                    /\ IF pick_slot_raises(a, args.mode, args.target_time)
                       THEN /\ pc' = "exit" /\ exc' = "ValueError" /\ exit_code' = 1
                            /\ lastPick' = None
                            /\ ret' = ret
                       ELSE LET p == pick_slot(a, args.mode, args.target_time)
                            IN  /\ lastPick' = p
                                /\ exc' = exc /\ exit_code' = exit_code
                                /\ pc' = AfterQuery(p)
                                /\ ret' = IF p # None
                                          THEN [pick |-> p, avails |-> a]
                                          ELSE ret
    /\ UNCHANGED <<args, deadline, backoff, slept, reserves, evalVars, gateVars>>

\* the handler forgetting the last SlotSet on a failure
QueryTransient_clears ==
    /\ pc = "query"
    /\ \E d \in QueryDurations, o \in Outcomes :
        /\ MayBeCaught(o)
        /\ clock' = clock + d
        /\ outcome' = o
    /\ nqueries' = Min(nqueries + 1, MaxQueries)
    /\ backoff' = NextBackoff(backoff)
    /\ fails' = fails + 1
    /\ last_avails' = <<>>
    /\ pc' = "backoff_sleep"
    /\ UNCHANGED <<args, deadline, ret, exit_code, exc,
                   succeeded, slept, lastGood, lastPick, reserves, evalVars, gateVars>>

\* poll_for_slot, lines 169-172: the query raises a RequestException
QueryTransient ==
    /\ pc = "query"
    /\ \E d \in QueryDurations, o \in Outcomes :
        /\ MayBeCaught(o)
        /\ clock' = clock + d
        /\ outcome' = o
    /\ nqueries' = Min(nqueries + 1, MaxQueries)
    /\ backoff' = NextBackoff(backoff)
    /\ fails' = fails + 1
    /\ pc' = "backoff_sleep"
    /\ UNCHANGED <<args, deadline, last_avails, ret, exit_code, exc,
                   succeeded, slept, lastGood, lastPick, reserves, evalVars, gateVars>>

\* poll_for_slot: the query raises an exception the handler does not catch,
\* which ends the run with a traceback and exit status 1
QueryFatal ==
    /\ pc = "query"
    /\ \E d \in QueryDurations, o \in Outcomes :
        /\ MayPropagate(o)
        /\ clock' = clock + d
        /\ outcome' = o
        /\ exc' = ExcOf(o)
    /\ nqueries' = Min(nqueries + 1, MaxQueries)
    /\ pc' = "exit"
    /\ exit_code' = 1
    /\ UNCHANGED <<args, loopState, fails, succeeded, slept, lastGood, lastPick,
                   reserves, evalVars, gateVars>>

\* poll_for_slot, line 173: time.sleep(backoff)
BackoffSleep ==
    /\ pc = "backoff_sleep"
    /\ clock' = clock + backoff
    /\ slept' = Append(slept, backoff)
    /\ pc' = "check"
    /\ UNCHANGED <<args, loopState, exit_code, exc, outcome, fails, succeeded,
                   nqueries, lastGood, lastPick, reserves, evalVars, gateVars>>

\* the loop giving up after three consecutive failures
DeadlineCheck_gives_up ==
    /\ pc = "check"
    /\ IF clock >= deadline \/ fails >= 3
       THEN pc' = "returned" /\ ret' = [pick |-> None, avails |-> last_avails]
       ELSE pc' = "poll_sleep" /\ ret' = ret
    /\ UNCHANGED <<args, clock, deadline, backoff, last_avails, exit_code, exc,
                   history, reserves, evalVars, gateVars>>

\* a deadline check that never ends the loop
DeadlineCheck_never_returns ==
    /\ pc = "check"
    /\ pc' = "poll_sleep"
    /\ UNCHANGED <<args, clock, deadline, backoff, last_avails, ret, exit_code, exc,
                   history, reserves, evalVars, gateVars>>

\* poll_for_slot, lines 175-176
DeadlineCheck ==
    /\ pc = "check"
    /\ IF clock >= deadline
       THEN pc' = "returned" /\ ret' = [pick |-> None, avails |-> last_avails]
       ELSE pc' = "poll_sleep" /\ ret' = ret
    /\ UNCHANGED <<args, clock, deadline, backoff, last_avails, exit_code, exc,
                   history, reserves, evalVars, gateVars>>

\* poll_for_slot, line 178: time.sleep(poll_every)
PollSleep ==
    /\ pc = "poll_sleep"
    /\ clock' = clock + args.poll_every
    /\ pc' = "query"
    /\ UNCHANGED <<args, loopState, exit_code, exc, history, reserves, evalVars, gateVars>>

\* main, lines 264-272
MainAfterPoll ==
    /\ pc = "returned"
    /\ IF ret.pick = None
       THEN pc' = "exit" /\ exit_code' = 1
       ELSE IF args.dry_run
            THEN pc' = "exit" /\ exit_code' = 0
            ELSE pc' = "reserve" /\ exit_code' = exit_code
    /\ UNCHANGED <<args, clock, loopState, exc, history, reserves, evalVars, gateVars>>

\* how a call of reserve can end
ReserveOutcomes == {"ok", "http_error", "network_error", "not_json"}

\* main committing again after a failed commit
Reserve_retries ==
    /\ pc = "reserve"
    /\ \E d \in QueryDurations, o \in ReserveOutcomes :
        /\ clock' = clock + d
        /\ reserves' = Append(reserves, o)
        /\ IF o = "ok"
           THEN pc' = "exit" /\ exit_code' = 0
           ELSE pc' = "reserve" /\ exit_code' = exit_code
    /\ exc' = exc
    /\ UNCHANGED <<args, loopState, history, evalVars, gateVars>>

\* main, lines 275-300: the reservation commit
Reserve ==
    /\ pc = "reserve"
    /\ \E d \in QueryDurations, o \in ReserveOutcomes :
        /\ clock' = clock + d
        /\ reserves' = Append(reserves, o)
        /\ \/ o = "ok" /\ exit_code' = 0 /\ exc' = exc
           \/ o \in {"http_error", "network_error", "not_json"}
                /\ exit_code' = 3 /\ exc' = exc
           \/ o = "not_json" /\ exit_code' = 1 /\ exc' = "ValueError"
    /\ pc' = "exit"
    /\ UNCHANGED <<args, loopState, history, evalVars, gateVars>>

Next ==
    \/ MainStart
    \/ PollEnter
    \/ QueryOk
    \/ QueryTransient
    \/ QueryFatal
    \/ BackoffSleep
    \/ DeadlineCheck
    \/ PollSleep
    \/ MainAfterPoll
    \/ Reserve

Spec == Init /\ [][Next]_vars

LoopPcs == {"query", "backoff_sleep", "check", "poll_sleep"}

Max(a, b) == IF a >= b THEN a ELSE b

MaxOf(S) == CHOOSE x \in S : \A y \in S : y <= x

\* C1: a successful query leaves the backoff at zero, so the first transient
\* failure after a successful query sleeps a backoff of 2 (the base), however
\* many failures came before that success.
C1_SuccessResetsBackoff ==
    /\ (outcome = "ok" /\ pc \in {"check", "returned"}) => backoff = 0
    /\ (pc = "backoff_sleep" /\ succeeded /\ fails = 1) => backoff = BackoffBase

\* C2: as long as no query of the call has succeeded, the k-th backoff slept
\* is min(2 * 2^(k-1), 8), and each failure's backoff has been slept by the
\* time the loop is at its deadline check or at its poll sleep.
C2_BackoffSequence ==
    ~succeeded =>
        /\ \A k \in 1..Len(slept) :
               slept[k] = Min(BackoffBase * 2 ^ (k - 1), BackoffCap)
        /\ Len(slept) = IF pc = "backoff_sleep" THEN fails - 1 ELSE fails

C2_Witness == ~succeeded /\ pc = "check" /\ slept = <<2, 4, 8, 8>>

\* C3: no backoff sleep, poll sleep or retry query starts once the clock has
\* reached the deadline, and a call that finds no slot returns at most one
\* query or one sleep after the deadline.
C3_DeadlineRespect ==
    /\ (pc \in {"backoff_sleep", "poll_sleep"} \/ (pc = "query" /\ nqueries >= 1))
           => clock < deadline
    /\ (pc = "returned" /\ ret.pick = None)
           => clock <= deadline + Max(MaxOf(QueryDurations),
                                      Max(BackoffCap, args.poll_every))

\* C4: after an authorization rejection or a malformed response the run is
\* over with that error, and the backoff is entered only after a network
\* error, a timeout or a 5xx answer.
C4_FatalAbortsAtOnce ==
    /\ outcome \in {"http_401", "not_json", "bad_shape", "bad_record"}
           => (pc = "exit" /\ exc # "none")
    /\ pc = "backoff_sleep" => outcome \in {"timeout", "http_5xx"}

\* C5: poll_for_slot returns "no selection" only when the clock has reached
\* the deadline, and it returns it as a value: no exception is raised.
C5_NoSelectionOnlyAtDeadline ==
    (pc = "returned" /\ ret.pick = None) => (clock >= deadline /\ exc = "none")

C5_Witness ==
    /\ pc = "returned" /\ ret.pick = None /\ fails >= 4
    /\ clock >= deadline /\ args.max_wait > 0

\* C6: the SlotSet the loop holds, and the one it returns, is the result of
\* the most recent successful query (empty when none succeeded); a transient
\* failure does not change it.
C6_ReturnsLastObserved ==
    /\ pc \in LoopPcs \cup {"returned"} => last_avails = lastGood
    /\ pc = "returned" => ret.avails = lastGood

C6_Witness ==
    /\ pc = "returned" /\ ret.pick = None /\ ret.avails # <<>>
    /\ outcome = "timeout"

\* the slot p is what the policy (m, t) asks for in the SlotSet a
SatisfiesPolicy(p, a, m, t) ==
    /\ m = "earliest" => IsMinOf(p, Range(a))
    /\ (m = "closest" /\ Truthy(t)) => IsMinOf(p, AtOrAfter(a, t))

\* C7: once a successful query has given a selection, the loop is over: the
\* call has returned that slot with that SlotSet, the slot is an element of
\* the SlotSet and it satisfies the active policy.
C7_PickTerminates ==
    lastPick # None =>
        /\ pc \notin LoopPcs
        /\ ret = [pick |-> lastPick, avails |-> lastGood]
        /\ lastPick \in Range(ret.avails)
        /\ SatisfiesPolicy(lastPick, ret.avails, args.mode, args.target_time)

C7_Witness ==
    /\ pc = "returned" /\ args.mode = "closest" /\ args.target_time = T0945
    /\ Len(ret.avails) = 2 /\ ret.pick = ret.avails[2] /\ Len(slept) >= 1

\* C8: the reservation commit is attempted at most once, only with a slot
\* returned by poll_for_slot and with dry-run off, and a commit that failed
\* by an HTTP rejection or a network error ends the run with an error status.
C8_CommitAtMostOnce ==
    /\ Len(reserves) <= 1
    /\ reserves # <<>> => (ret.pick # None /\ ~args.dry_run)
    /\ (reserves # <<>> /\ reserves[1] \in {"http_error", "network_error"})
           => (pc = "exit" /\ exit_code \notin {-1, 0})

C8_Witness == reserves = <<"http_error">> /\ pc = "exit" /\ exit_code = 3

\* C19: poll_for_slot queries at least once, whatever max_wait is; the
\* deadline is tested only after a query that gave no selection, so a slot
\* found is returned also when the clock has passed the deadline.
C19_QueriesAtLeastOnce ==
    /\ pc \in {"backoff_sleep", "check", "poll_sleep", "returned", "reserve"}
           => nqueries >= 1
    /\ (pc = "exit" /\ args.token) => nqueries >= 1
    /\ pc = "check" => (outcome # "ok" \/ lastPick = None)
    /\ lastPick # None => ret.pick = lastPick

C19_Witness ==
    /\ pc = "returned" /\ args.max_wait < 0 /\ clock > deadline
    /\ nqueries = 1 /\ ret.pick # None

\* C20, for a run: with --mode closest and no --target-time the selection of
\* every successful query is the first (earliest) slot of its SlotSet, and
\* that slot is the one committed.
C20_RunCommitsEarliest ==
    (args.mode = "closest" /\ ~Truthy(args.target_time) /\ succeeded) =>
        /\ lastPick = IF lastGood = <<>> THEN None ELSE lastGood[1]
        /\ reserves # <<>> => (ret.pick = lastGood[1]
                                 /\ IsMinOf(ret.pick, Range(lastGood)))

\* exit statuses of main: no slot found (line 266), success or dry-run
\* (lines 272 and 288)
ExitNoSlot == 1

ExitOk == 0

\* C18: a run ended by a fatal query failure or by a commit failure has an
\* exit status that differs from the one of a run that found no slot, and
\* both differ from the status of a successful reservation or dry-run.
C18_DistinctOutcomes ==
    pc = "exit" =>
        LET fatalQuery == exc # "none" /\ reserves = <<>>
            commitFailed == reserves # <<>> /\ reserves[1] # "ok"
            noSlot == exc = "none" /\ args.token /\ ret.pick = None
            done == /\ exc = "none" /\ ret.pick # None
                    /\ (args.dry_run \/ reserves = <<"ok">>)
        IN  /\ (fatalQuery \/ commitFailed) => exit_code \notin {ExitNoSlot, ExitOk}
            /\ noSlot => (exit_code = ExitNoSlot /\ exit_code # ExitOk)
            /\ done => exit_code = ExitOk

(***************************************************************************)
(* The gate target of main, computed on its own (time in seconds)          *)
(***************************************************************************)
\* wall clock readings, in seconds since midnight of day 0
TargetNows ==
    {0, 1, 60 * to_minutes(T0900) - 1, 60 * to_minutes(T0900),
     60 * to_minutes(T0900) + 1, 60 * to_minutes(T2359), SecondsPerDay - 1,
     SecondsPerDay, SecondsPerDay + 60 * to_minutes(T0900), 2 * SecondsPerDay - 1}

GateTimes == {T0000, T0800, T0900, T0930, T1000, T2359, T2599, TNoColon}

InitTarget ==
    /\ RunIdle
    /\ EvalIdle
    /\ g_pc = "compute"
    /\ g_hhmm \in GateTimes
    /\ g_now \in TargetNows
    /\ g_target = 0 /\ g_entry = 0 /\ g_sleeps = <<>>

\* main, lines 229-233
ComputeTarget ==
    /\ g_pc = "compute"
    /\ IF GateTarget_raises(g_hhmm)
       THEN g_pc' = "raised" /\ g_target' = g_target
       ELSE g_pc' = "computed" /\ g_target' = GateTarget(g_now, g_hhmm)
    /\ UNCHANGED <<g_hhmm, g_now, g_entry, g_sleeps>>
    /\ UNCHANGED runVars
    /\ UNCHANGED evalVars

NextTarget == ComputeTarget

SpecTarget == InitTarget /\ [][NextTarget]_vars

\* today's HH:MM, in seconds since midnight of day 0
TodayAt(now, hhmm) == (now \div SecondsPerDay) * SecondsPerDay + 60 * to_minutes(hhmm)

\* C14: the gate target is today's HH:MM when that is after now and exactly
\* one day later otherwise, so it is strictly after now and at most one day
\* after now.
C14_GateTarget ==
    g_pc = "computed" =>
        /\ TodayAt(g_now, g_hhmm) > g_now => g_target = TodayAt(g_now, g_hhmm)
        /\ TodayAt(g_now, g_hhmm) <= g_now
               => g_target = TodayAt(g_now, g_hhmm) + SecondsPerDay
        /\ g_target > g_now
        /\ g_target <= g_now + SecondsPerDay

\* 09:00 asked at 09:00:00 sharp: the target is 09:00 of the next day
C14_Witness ==
    /\ g_pc = "computed" /\ g_hhmm = T0900 /\ g_now = 60 * to_minutes(T0900)
    /\ g_target = g_now + SecondsPerDay

(***************************************************************************)
(* sleep_until on its own (time in tenths of a second)                     *)
(***************************************************************************)
\* time.sleep(min(delta, 0.5)): 0.5 s in tenths of a second
SleepChunk == 5

\* time.sleep may return late: tenths of a second a sleep can overrun
Oversleeps == {0, 1}

GateEntries == {0, 2, 9}

GateTargets == {0, 3, 9, 12, 17}

InitGate ==
    /\ RunIdle
    /\ EvalIdle
    /\ g_pc = "loop"
    /\ g_hhmm = NoneStr
    /\ g_entry \in GateEntries
    /\ g_now = g_entry
    /\ g_target \in GateTargets
    /\ g_sleeps = <<>>

\* a sleep_until that returns once less than a chunk remains
SleepUntilStep_returns_early ==
    /\ g_pc = "loop"
    /\ LET delta == g_target - g_now
       IN  IF delta < SleepChunk
           THEN g_pc' = "returned" /\ UNCHANGED <<g_now, g_sleeps>>
           ELSE \E over \in Oversleeps :
                    /\ g_now' = g_now + Min(delta, SleepChunk) + over
                    /\ g_sleeps' = Append(g_sleeps,
                                      [delta |-> delta, secs |-> Min(delta, SleepChunk)])
                    /\ g_pc' = "loop"
    /\ UNCHANGED <<g_hhmm, g_target, g_entry>>
    /\ UNCHANGED runVars
    /\ UNCHANGED evalVars

\* sleep_until, lines 127-133: one iteration of the loop
SleepUntilStep ==
    /\ g_pc = "loop"
    /\ LET delta == g_target - g_now
       IN  IF delta <= 0
           THEN g_pc' = "returned" /\ UNCHANGED <<g_now, g_sleeps>>
           ELSE \E over \in Oversleeps :
                    /\ g_now' = g_now + Min(delta, SleepChunk) + over
                    /\ g_sleeps' = Append(g_sleeps,
                                      [delta |-> delta, secs |-> Min(delta, SleepChunk)])
                    /\ g_pc' = "loop"
    /\ UNCHANGED <<g_hhmm, g_target, g_entry>>
    /\ UNCHANGED runVars
    /\ UNCHANGED evalVars

NextGate == SleepUntilStep

SpecGate == InitGate /\ [][NextGate]_vars /\ WF_vars(NextGate)

\* sleep_until has returned only with the clock at or after the target, without
\* a sleep when the target had passed at entry, and every sleep asked for
\* min(remaining, 0.5)
GateSafe ==
    /\ g_pc = "returned" => g_now >= g_target
    /\ (g_pc = "returned" /\ g_entry >= g_target) => g_sleeps = <<>>
    /\ \A i \in 1..Len(g_sleeps) :
           g_sleeps[i].secs = Min(g_sleeps[i].delta, SleepChunk)

\* C13: sleep_until never returns before the target, returns at once when the
\* target has passed at entry, waits min(remaining, 0.5) at each step, and
\* eventually returns.
C13_SleepUntil == [](GateSafe) /\ <>(g_pc = "returned")

C13_Witness ==
    /\ g_pc = "returned" /\ g_entry = 0 /\ g_target = 12 /\ Len(g_sleeps) = 3
    /\ g_sleeps[3].secs < SleepChunk

\* C12: every blocking sleep of the gate and of the acquisition loop lasts at
\* most one short increment of 0.5 (the loop's durations are in seconds, the
\* gate's in tenths of a second).
C12_ShortSleeps ==
    /\ \A i \in 1..Len(g_sleeps) : g_sleeps[i].secs <= SleepChunk
    /\ pc = "backoff_sleep" => 2 * backoff <= 1
    /\ pc = "poll_sleep" => 2 * args.poll_every <= 1

(***************************************************************************)
(* Termination of the acquisition loop                                     *)
(***************************************************************************)
\* seconds past the deadline up to which the loop is followed
MaxOvershoot == 12

\* the steps of a run, the loop followed no further than MaxOvershoot past
\* its deadline
NextLive == Next /\ (pc \in LoopPcs => clock' <= deadline + MaxOvershoot)

\* a step during which the clock advances
Advance == NextLive /\ clock' > clock

\* every step taken ends (queries are bounded by their timeout, sleeps by
\* their duration), and the clock does not stand still for ever
SpecLive ==
    Init /\ [][NextLive]_vars /\ WF_vars(NextLive) /\ SF_vars(Advance)

\* poll_for_slot has returned (a slot, or no selection) or has raised
PollOver == pc \in {"returned", "reserve"} \/ (pc = "exit" /\ args.token)

\* C16: every call of poll_for_slot ends: it returns a slot, returns no
\* selection, or raises a fatal error.
C16_PollTerminates == (pc = "query" /\ nqueries = 0) ~> PollOver

\* the loop ended at the deadline after failures and empty results
C16_Witness ==
    /\ pc = "returned" /\ ret.pick = None /\ succeeded /\ Len(slept) >= 3
    /\ args.poll_every = 0

====
